---- MODULE Spec2Model ----
(***************************************************************************)
(* Model of the automation control core of bonsai_assistant:               *)
(*   core/timing.py                WateringCooldownManager                 *)
(*   core/automation_controller.py AutomationController                    *)
(*   hardware/actuators/pump_controller.py PumpController                  *)
(*   simulation/mock_pump.py       MockPumpController                      *)
(* Moisture percentages and thresholds are integers in tenths of a percent *)
(* (sensors round to one decimal).  Time is an integer clock; one unit is  *)
(* one wall-clock minute, and several loop iterations fit into one unit.   *)
(***************************************************************************)
EXTENDS Integers, Sequences, FiniteSets, TLC

\* ---------------------------------------------------------------- bounds
\* cooldown_sec of the guard, in clock units
CooldownSec == 2
\* the clock stops advancing here
MaxTime == 6
\* clock units per calendar day and days per week of the scaled calendar
DayLen == 2
WeekLen == 2
\* consecutive_low_readings is capped here in the guards
MaxLow == 3
\* pump worker threads alive at the same time
MaxWorkers == 2
\* on-phases a pulse sequence fits into its total_duration
MaxPulses == 2
\* loop iterations counted in a recorded run
MaxTicks == 4
\* max_continuous_runtime, the safety limit of the hardware pump: 300 s in
\* the source, scaled like the cooldown period
MaxContinuousRuntime == 2
\* clock units a timed pulse run is followed for
PulseHorizon == 10

\* time.time() at construction is far beyond one cooldown period
StartTime == CooldownSec + 1

\* ------------------------------------------------------------- constants
\* sensor readings are clamped to [0, 100] percent
MaxMoisture == 1000
\* clamp limits of the adaptive threshold, 15 and 50 percent
ThresholdMin == 150
ThresholdMax == 500
\* hysteresis margin, 2 percent
Hysteresis == 20
\* config.sensor.moisture_threshold default, 30 percent
DefaultThreshold == 300
\* consecutive low readings required for a MOISTURE_LOW watering
DebounceCount == 3
StableHours == 4
HistoryHours == 24
WateringDays == 7
\* config.sensor.sensor_warning_interval, 60 s: one clock unit
SensorWarningInterval == 2
\* config.pump.initial_run_duration and pulse_duration, in milliseconds
BaseInitialDuration == 1000
BasePulseDuration == 15000
\* duration_multiplier of _execute_watering, in tenths: 1.0 and 1.5
NormalMultiplier == 10
EmergencyMultiplier == 15

HEALTHY == "healthy"
NEEDS_WATER == "needs_water"
RECENTLY_WATERED == "recently_watered"
SENSOR_ERROR == "sensor_error"
CRITICAL == "critical"
PlantState == {HEALTHY, NEEDS_WATER, RECENTLY_WATERED, SENSOR_ERROR, CRITICAL}

MOISTURE_LOW == "moisture_low"
SCHEDULED == "scheduled"
MANUAL == "manual"
EMERGENCY == "emergency"
NoTrigger == "none"

Threads == {1, 2}
\* the thread of an external caller (the operator's UI), as a worker's owner
UiThread == 3
NoValue == -1
\* read_moisture_percent() returning None: the sensor is absent
Absent == -2

VARIABLES
    now,                          \* time.time()
    last_automated_watered_time,  \* WateringCooldownManager
    ret,                          \* result of the last query or pure call
    args,                         \* inputs of the last pure call or of the run;
                                  \* during get_status(), the fields read so far
    running, stop_event,          \* AutomationController thread management
    current_state, last_moisture_reading, automation_active,
    adaptive_threshold, consecutive_low_readings,
    watering_schedule, last_scheduled_watering, last_sensor_warning,
    th,                           \* per control-loop thread: position and locals
    automation_thread,            \* the thread start_automation() created last
    ui,                           \* position of the caller of stop_automation(),
                                  \* manual_water() or get_status()
    store_ok,                     \* whether HistoryStore calls succeed
    pump,                         \* pump object: kind, output, flags, workers
    obs                           \* history variables: stopped, whether
                                  \* stop_automation() returned last; marked, the
                                  \* instant of the last mark_watered() no reset()
                                  \* followed; scheduled, the instant of the
                                  \* schedule check of the last SCHEDULED watering
                                  \* that started the pump; ticks, the loop
                                  \* iterations begun, and
                                  \* events, the WateringEvents stored, polled, the
                                  \* time of the last poll, absent_since, the time
                                  \* since which every poll was absent, warnings,
                                  \* the times of the SENSOR_WARNINGs stored,
                                  \* state_events, state_calls and moisture_calls,
                                  \* the notifications of the iteration under way,
                                  \* all kept in a recorded run only (ticks =
                                  \* NoValue otherwise)

\* what a control-loop step never writes
envVars == <<now, ret, args, store_ok>>
\* thread management of the controller
lifeVars == <<running, stop_event, automation_thread, ui>>
\* the controller's plant state
coreVars == <<current_state, last_moisture_reading, automation_active,
              adaptive_threshold, consecutive_low_readings, watering_schedule,
              last_scheduled_watering, last_sensor_warning>>
vars == <<now, last_automated_watered_time, ret, args, running, stop_event,
          current_state, last_moisture_reading, automation_active,
          adaptive_threshold, consecutive_low_readings, watering_schedule,
          last_scheduled_watering, last_sensor_warning, th, automation_thread, ui, store_ok, pump, obs>>

\* ------------------------------------------------- WateringCooldownManager
can_water_inclusive(t, last) == t - last >= CooldownSec
\* can_water(): time.time() - last_automated_watered_time > cooldown_sec
can_water_at(t, last) == t - last > CooldownSec
can_water == can_water_at(now, last_automated_watered_time)
\* seconds_since_last()
seconds_since_last == now - last_automated_watered_time
\* mark_watered(): self.last_automated_watered_time = time.time()
mark_watered ==
    /\ last_automated_watered_time' = now
    /\ obs' = [obs EXCEPT !.marked = now]
\* reset(): self.last_automated_watered_time = 0
reset ==
    /\ last_automated_watered_time' = 0
    /\ obs' = [obs EXCEPT !.marked = NoValue]

\* ---------------------------------------------------- PlantStateClassifier
classify_critical_inclusive(m, t, cw) ==
    IF 2 * m <= t THEN CRITICAL
    ELSE IF m < t THEN NEEDS_WATER
    ELSE IF ~cw THEN RECENTLY_WATERED ELSE HEALTHY
classify_ignoring_cooldown(m, t, cw) ==
    IF 2 * m < t THEN CRITICAL
    ELSE IF m < t THEN NEEDS_WATER
    ELSE HEALTHY
\* _calculate_plant_state: the state returned for reading m, threshold t and
\* cooldown status cw (moisture < threshold * 0.5 is 2 * m < t, exactly)
classify(m, t, cw) ==
    IF 2 * m < t THEN CRITICAL
    ELSE IF m < t THEN NEEDS_WATER
    ELSE IF ~cw THEN RECENTLY_WATERED ELSE HEALTHY
low_after_without_reset(m, t, c) == IF m < t THEN c + 1 ELSE c
\* _calculate_plant_state: consecutive_low_readings after reading m
low_after(m, t, c) == IF m < t THEN c + 1 ELSE 0

\* ---------------------------------------------- AdaptiveThresholdEstimator
\* The stable readings are given by their sum S (tenths) and their number n;
\* avg_stable * 0.9 is the rational 9 * S / (10 * n) tenths.
candidate_num(S, n) ==
    LET raw == 9 * S
        den == 10 * n
    IN  IF raw < ThresholdMin * den THEN ThresholdMin * den
        ELSE IF raw > ThresholdMax * den THEN ThresholdMax * den
        ELSE raw
candidate_den(n) == 10 * n
exceeds_one_point(cur, S, n) ==
    LET d == candidate_num(S, n) - cur * candidate_den(n)
    IN  (IF d < 0 THEN -d ELSE d) > 10 * candidate_den(n)
\* abs(new_threshold - self.adaptive_threshold) > 2
exceeds_hysteresis(cur, S, n) ==
    LET d == candidate_num(S, n) - cur * candidate_den(n)
    IN  (IF d < 0 THEN -d ELSE d) > Hysteresis * candidate_den(n)
\* round(new_threshold, 1): the nearest tenth; the product is a binary float,
\* so an exact half may round either way
rounded(S, n) ==
    LET num == candidate_num(S, n)
        den == candidate_den(n)
        q == num \div den
        r == num % den
    IN  IF 2 * r < den THEN {q}
        ELSE IF 2 * r > den THEN {q + 1}
        ELSE {q, q + 1}
\* _update_adaptive_threshold: the thresholds the recompute may leave, for a
\* history of h readings of which n are stable and sum to S
updated_threshold(cur, h, S, n) ==
    IF h < 10 \/ n < 5 THEN {cur}
    ELSE IF exceeds_hysteresis(cur, S, n) THEN rounded(S, n)
    ELSE {cur}
\* _update_adaptive_threshold: whether the recompute calls
\* log_system_event("THRESHOLD_UPDATE")
threshold_update_event(cur, h, S, n) ==
    ~(h < 10 \/ n < 5) /\ exceeds_hysteresis(cur, S, n)

\* The HistoryStore rows are given by their age in hours at the recompute: a
\* moisture row [age, moisture_percent], a watering row by its age alone.
\* get_moisture_history(hours): the rows with timestamp >= now - hours
get_moisture_history(rows, hours) == SelectSeq(rows, LAMBDA r : r.age <= hours)
\* get_watering_history(days): the timestamps of the rows since now - days
get_watering_history(waterings, days) == {w \in waterings : w <= days * 24}
\* float('inf') among the distances of a reading to the watering events
Infinity == 1000000
\* min([abs(reading.timestamp - watered_time) ...] + [float('inf')])
time_since_watering(r, watered_times) ==
    LET ds == {IF r.age >= w THEN r.age - w ELSE w - r.age : w \in watered_times}
                  \cup {Infinity}
    IN  CHOOSE d \in ds : \A e \in ds : d <= e
stable_readings_inclusive(history, watered_times) ==
    SelectSeq(history,
              LAMBDA r : time_since_watering(r, watered_times) >= StableHours)
\* the readings with time_since_watering > 4 * 3600
stable_readings(history, watered_times) ==
    SelectSeq(history,
              LAMBDA r : time_since_watering(r, watered_times) > StableHours)
RECURSIVE sum(_)
\* sum(stable_readings)
sum(readings) ==
    IF readings = <<>> THEN 0
    ELSE Head(readings).moisture_percent + sum(Tail(readings))

\* -------------------------------------------------------------- calendar
\* now.date(), now.strftime("%A") and now.strftime("%H:%M") of an instant
date_of(t) == t \div DayLen
weekday_of(t) == date_of(t) % WeekLen
hhmm_of(t) == t % DayLen

\* ----------------------------------------------------------- environment
\* readings a poll may return (tenths of a percent): the scenarios' 10, 25
\* and 50 percent
Readings == {100, 250, 500}
Polls == Readings \cup {"absent", "raise"}
\* histories get_moisture_history / get_watering_history may describe:
\* <<readings in 24 h, sum of the stable ones, number of stable ones>>
Histories == {<<0, 0, 0>>, <<12, 7000, 10>>}
\* schedules set_schedule() is called with: sets of <<weekday, "HH:MM">>
Schedules == {{<<0, 1>>, <<1, 1>>}}

\* --------------------------------------------------------- PumpController
Workers == 1..MaxWorkers
NoWorker == [k |-> "none", pc |-> "none", owner |-> 0, n |-> 0,
             end_time |-> 0, wake |-> 0]
FreeSlots(p) == {i \in Workers : p.w[i].k = "none"}
spawn(p, kind, start, owner) ==
    LET i == CHOOSE i \in FreeSlots(p) : \A j \in FreeSlots(p) : i <= j
    IN  [p EXCEPT !.w[i] = [NoWorker EXCEPT !.k = kind, !.pc = start,
                                            !.owner = owner]]
\* turn_on(): whether the call asserts the output and returns True: the
\* output is deasserted and the session runtime is below the safety limit
turn_on_ok(p) == ~p.value /\ p.session_runtime < MaxContinuousRuntime
\* turn_on() asserting the output at time t, called by a worker of `owner`
turn_on(p, t, owner) ==
    [p EXCEPT !.value = TRUE, !.start_time = t, !.asserted = @ \cup {owner}]
\* turn_off() at time t: under the lock, deassert the output and add the
\* time it was asserted to the session runtime
turn_off_at(p, t) ==
    IF p.value
    THEN [p EXCEPT !.value = FALSE,
                   !.session_runtime =
                       IF p.kind = "real" /\ p.start_time # NoValue
                       THEN @ + (t - p.start_time) ELSE @,
                   !.start_time = NoValue]
    ELSE p
turn_off(p) == turn_off_at(p, now)
\* run_timed(duration_sec): whether the duration (ms) is within the safety
\* limit (s), so that the worker is started
run_timed_ok(duration_sec) == duration_sec <= MaxContinuousRuntime * 1000
\* the simulated pump's output asserted by a call of `owner`
mock_on(p, owner) == [p EXCEPT !.value = TRUE, !.asserted = @ \cup {owner}]
\* stop_pulsing(): _pulsing = False; turn_off()
stop_pulsing(p) == turn_off([p EXCEPT !.pulsing = FALSE])
TimedAlive(p, t) == \E i \in Workers : p.w[i].k = "timed" /\ p.w[i].owner = t

\* run_timed.worker: if self.turn_on()
TimedOn(i) ==
    /\ pump.w[i].k = "timed" /\ pump.w[i].pc = "t_on"
    /\ pump' = IF turn_on_ok(pump)
               THEN [turn_on(pump, now, pump.w[i].owner) EXCEPT !.w[i].pc = "t_sleep"]
               ELSE [pump EXCEPT !.w[i] = NoWorker]
    /\ UNCHANGED <<envVars, lifeVars, coreVars, last_automated_watered_time, th, obs>>

\* run_timed.worker: time.sleep(duration_sec); self.turn_off()
TimedOff(i) ==
    /\ pump.w[i].k = "timed" /\ pump.w[i].pc = "t_sleep"
    /\ pump' = [turn_off(pump) EXCEPT !.w[i] = NoWorker]
    /\ UNCHANGED <<envVars, lifeVars, coreVars, last_automated_watered_time, th, obs>>

\* pulser: self._pulsing = True
PulserStart(i) ==
    /\ pump.w[i].k = "pulse" /\ pump.w[i].pc = "p_start"
    /\ pump' = [pump EXCEPT !.pulsing = TRUE, !.w[i].pc = "p_test"]
    /\ UNCHANGED <<envVars, lifeVars, coreVars, last_automated_watered_time, th, obs>>

\* pulser: while self._pulsing and time.time() < end_time; the end time is
\* not reached before the first on-phase and is reached after MaxPulses
PulserTest(i) ==
    /\ pump.w[i].k = "pulse" /\ pump.w[i].pc = "p_test"
    /\ \E expired \in BOOLEAN :
         /\ (pump.w[i].n = 0) => ~expired
         /\ (pump.w[i].n >= MaxPulses) => expired
         /\ pump' = [pump EXCEPT !.w[i].pc =
                        IF pump.pulsing /\ ~expired THEN "p_on" ELSE "p_end"]
    /\ UNCHANGED <<envVars, lifeVars, coreVars, last_automated_watered_time, th, obs>>

\* pulser: if self.turn_on(): ... else: break
PulserOn(i) ==
    /\ pump.w[i].k = "pulse" /\ pump.w[i].pc = "p_on"
    /\ pump' = IF turn_on_ok(pump)
               THEN [turn_on(pump, now, pump.w[i].owner) EXCEPT
                        !.w[i].pc = "p_off", !.w[i].n = pump.w[i].n + 1]
               ELSE [pump EXCEPT !.w[i].pc = "p_end"]
    /\ UNCHANGED <<envVars, lifeVars, coreVars, last_automated_watered_time, th, obs>>

\* pulser: time.sleep(pulse_on); self.turn_off(); sleep(pulse_off) if pulsing
PulserOff(i) ==
    /\ pump.w[i].k = "pulse" /\ pump.w[i].pc = "p_off"
    /\ pump' = [turn_off(pump) EXCEPT !.w[i].pc = "p_test"]
    /\ UNCHANGED <<envVars, lifeVars, coreVars, last_automated_watered_time, th, obs>>

\* pulser: self._pulsing = False, and the thread ends
PulserEnd(i) ==
    /\ pump.w[i].k = "pulse" /\ pump.w[i].pc = "p_end"
    /\ pump' = [pump EXCEPT !.pulsing = FALSE, !.w[i] = NoWorker]
    /\ UNCHANGED <<envVars, lifeVars, coreVars, last_automated_watered_time, th, obs>>

\* --------------------------------------------------- AutomationController
NoLocals == [pc |-> "idle", trigger |-> NoTrigger, emergency |-> FALSE,
             duration_multiplier |-> NormalMultiplier,
             initial_duration |-> 0, pulse_duration |-> 0,
             caller |-> "none", sched_now |-> NoValue, began |-> FALSE,
             failed |-> FALSE, err_logged |-> FALSE, exc |-> FALSE,
             moisture |-> NoValue]
\* a recorded run counts the loop iteration that begins
began_tick(o) ==
    IF o.ticks = NoValue THEN o
    ELSE [o EXCEPT !.ticks = @ + 1, !.state_events = 0, !.state_calls = <<>>,
                   !.moisture_calls = <<>>, !.written = NoValue]
\* a recorded run keeps the value m the tick passed to log_moisture_reading
persisted(o, m) == IF o.ticks = NoValue THEN o ELSE [o EXCEPT !.written = m]
\* a recorded run keeps the time t of each poll and the time since which
\* every poll has been absent
polled(o, t, absent) ==
    IF o.ticks = NoValue THEN o
    ELSE [o EXCEPT !.polled = t,
                   !.absent_since = IF ~absent THEN NoValue
                                    ELSE IF @ = NoValue THEN t ELSE @]
\* a recorded run keeps the number of polls up to the latest, without a gap,
\* that returned a reading below the threshold (at most the debounce count)
ran_low(o, low) ==
    IF o.ticks = NoValue THEN o
    ELSE [o EXCEPT !.low_run = IF ~low THEN 0
                               ELSE IF @ < DebounceCount THEN @ + 1 ELSE @]
\* state_change_callbacks and moisture_update_callbacks after two
\* registrations each
StateObservers == <<1, 2>>
MoistureObservers == <<1, 2>>
invoked_until_raise(cbs, raising) ==
    IF \E k \in 1..Len(cbs) : cbs[k] \in raising
    THEN SubSeq(cbs, 1, CHOOSE k \in 1..Len(cbs) :
                           /\ cbs[k] \in raising
                           /\ \A j \in 1..(k - 1) : cbs[j] \notin raising)
    ELSE cbs
\* for callback in cbs: try: callback(...) except Exception: print(...);
\* the callbacks called when those in `raising` raise
invoked(cbs, raising) == cbs
\* a recorded run keeps, for the iteration under way, each
\* log_system_event("STATE_CHANGE") call and each state callback called
\* with (old, new), with current_state at the call
noted_state(o, old, new, cur, called, raising) ==
    IF o.ticks = NoValue THEN o
    ELSE [o EXCEPT !.state_events = @ + 1,
                   !.state_calls = @ \o [k \in 1..Len(called) |->
                       [observer |-> called[k], old |-> old, new |-> new,
                        current |-> cur, raised |-> called[k] \in raising]]]
\* and each moisture callback called with the reading m
noted_moisture(o, m, called, raising) ==
    IF o.ticks = NoValue THEN o
    ELSE [o EXCEPT !.moisture_calls = @ \o [k \in 1..Len(called) |->
                       [observer |-> called[k], value |-> m,
                        raised |-> called[k] \in raising]]]
\* a recorded run keeps the time t of the SENSOR_WARNING the store accepted
warned(o, t) == IF o.ticks = NoValue THEN o ELSE [o EXCEPT !.warnings = Append(@, t)]
\* a recorded run keeps the WateringEvent e the store accepted
recorded(o, e) == IF o.ticks = NoValue THEN o ELSE [o EXCEPT !.events = Append(@, e)]
at(t, pc) == th[t].pc = pc
goto(t, pc) == [th EXCEPT ![t].pc = pc]
\* the positions of _execute_watering after automation_active was set
SequencePcs == {"ew190", "ew197", "ew198", "ew201", "ew153", "ew208", "ew216",
                "ew219", "ew225", "ew228", "ew234"}
\* the time.sleep() of the sequence that outlasts join(timeout=5): the
\* post-water wait of 30 s
SleepPcs == {"ew225"}
InSequence(t) == th[t].pc \in SequencePcs

LoopTestForever(t) ==
    /\ at(t, "loop")
    /\ obs.ticks < MaxTicks
    /\ th' = goto(t, "check")
    /\ obs' = began_tick(obs)
    /\ UNCHANGED <<envVars, lifeVars, coreVars, last_automated_watered_time, pump>>
\* _automation_loop: stop_event.wait(refresh_interval_sec), then
\* while self.running and not self.stop_event.is_set()
LoopTest(t) ==
    /\ at(t, "loop")
    /\ IF running /\ ~stop_event
       THEN /\ obs.ticks < MaxTicks
            /\ th' = goto(t, "check")
            /\ obs' = began_tick(obs)
       ELSE /\ th' = goto(t, "exited")
            /\ obs' = obs
    /\ UNCHANGED <<envVars, lifeVars, coreVars, last_automated_watered_time, pump>>

\* _check_and_update_state with a poll that raises: the handler logs
\* SENSOR_ERROR, and that call's own exception reaches the loop
PollRaises(t) ==
    /\ at(t, "check")
    /\ th' = goto(t, IF store_ok THEN "logic" ELSE "loop_except")
    /\ obs' = ran_low(obs, FALSE)
    /\ UNCHANGED <<envVars, lifeVars, coreVars, last_automated_watered_time, pump>>

warning_due_unlimited == TRUE
warning_due_strict == now - last_sensor_warning > SensorWarningInterval
\* _handle_sensor_error: whether a SENSOR_WARNING is to be logged now
warning_due == now - last_sensor_warning >= SensorWarningInterval

\* _check_and_update_state with an absent reading: _handle_sensor_error, the
\* state callbacks in rs raising when called
PollAbsentObs(t, rs) ==
    LET due == warning_due
        change == current_state # SENSOR_ERROR
        seen == ran_low(polled(obs, now, TRUE), FALSE)
        logged_warning == IF due THEN warned(seen, now) ELSE seen
    IN  /\ at(t, "check")
        /\ IF due /\ ~store_ok
           THEN \* log_system_event("SENSOR_WARNING") raises
                /\ th' = [th EXCEPT ![t].moisture = Absent, ![t].pc = "loop_except"]
                /\ obs' = seen
                /\ UNCHANGED <<current_state, last_sensor_warning>>
           ELSE /\ last_sensor_warning' = IF due THEN now ELSE last_sensor_warning
                /\ current_state' = SENSOR_ERROR
                \* _notify_state_change logs STATE_CHANGE first
                /\ obs' = IF ~change THEN logged_warning
                          ELSE noted_state(logged_warning, current_state, SENSOR_ERROR,
                                           SENSOR_ERROR,
                                           IF store_ok THEN invoked(StateObservers, rs)
                                           ELSE <<>>, rs)
                /\ th' = [th EXCEPT ![t].moisture = Absent,
                                    ![t].pc = IF change /\ ~store_ok
                                              THEN "loop_except" ELSE "logic"]
        /\ UNCHANGED <<envVars, lifeVars, last_moisture_reading, automation_active,
                       adaptive_threshold, consecutive_low_readings, watering_schedule,
                       last_scheduled_watering, last_automated_watered_time, pump>>
\* the same with callbacks that return
PollAbsent(t) == PollAbsentObs(t, {})

\* _check_and_update_state with a reading m: store it, recompute the
\* threshold, classify, notify; the state callbacks in rs and the moisture
\* callbacks in rm raise when called
PollValueObs(t, m, rs, rm) ==
    LET seen == ran_low(polled(obs, now, FALSE), m < adaptive_threshold')
    IN
    /\ at(t, "check")
    /\ last_moisture_reading' = m
    /\ IF store_ok
       THEN \E hist \in Histories :
              adaptive_threshold' \in
                  updated_threshold(adaptive_threshold, hist[1], hist[2], hist[3])
       ELSE \* get_moisture_history raises, caught inside the estimator
            adaptive_threshold' = adaptive_threshold
    /\ consecutive_low_readings' =
           low_after(m, adaptive_threshold', consecutive_low_readings)
    /\ consecutive_low_readings' <= MaxLow
    /\ current_state' = classify(m, adaptive_threshold', can_water)
    /\ IF current_state' # current_state /\ ~store_ok
       THEN \* log_system_event("STATE_CHANGE") raises
            /\ th' = [th EXCEPT ![t].moisture = m, ![t].pc = "loop_except"]
            /\ obs' = noted_state(seen, current_state, current_state',
                                  current_state', <<>>, rs)
       ELSE /\ th' = [th EXCEPT ![t].moisture = m, ![t].pc = "logic"]
            /\ obs' = noted_moisture(
                          IF current_state' # current_state
                          THEN noted_state(seen, current_state, current_state',
                                           current_state',
                                           invoked(StateObservers, rs), rs)
                          ELSE seen,
                          m, invoked(MoistureObservers, rm), rm)
    /\ UNCHANGED <<envVars, lifeVars, automation_active, watering_schedule,
                   last_scheduled_watering, last_sensor_warning,
                   last_automated_watered_time, pump>>
\* the same with callbacks that return
PollValue(t, m) == PollValueObs(t, m, {}, {})

decision_without_debounce ==
    IF automation_active THEN NoTrigger
    ELSE IF current_state = CRITICAL
         THEN (IF can_water THEN EMERGENCY ELSE NoTrigger)
    ELSE IF current_state = NEEDS_WATER
         THEN (IF can_water /\ consecutive_low_readings >= 1
               THEN MOISTURE_LOW ELSE NoTrigger)
    ELSE NoTrigger
decision_debounce_short ==
    IF automation_active THEN NoTrigger
    ELSE IF current_state = CRITICAL
         THEN (IF can_water THEN EMERGENCY ELSE NoTrigger)
    ELSE IF current_state = NEEDS_WATER
         THEN (IF can_water /\ consecutive_low_readings >= DebounceCount - 1
               THEN MOISTURE_LOW ELSE NoTrigger)
    ELSE NoTrigger
decision_debounced_emergency ==
    IF automation_active THEN NoTrigger
    ELSE IF current_state = CRITICAL
         THEN (IF can_water /\ consecutive_low_readings >= DebounceCount
               THEN EMERGENCY ELSE NoTrigger)
    ELSE IF current_state = NEEDS_WATER
         THEN (IF can_water /\ consecutive_low_readings >= DebounceCount
               THEN MOISTURE_LOW ELSE NoTrigger)
    ELSE NoTrigger
\* _execute_automation_logic: the watering it decides on
decision ==
    IF automation_active THEN NoTrigger
    ELSE IF current_state = CRITICAL
         THEN (IF can_water THEN EMERGENCY ELSE NoTrigger)
    ELSE IF current_state = NEEDS_WATER
         THEN (IF can_water /\ consecutive_low_readings >= DebounceCount
               THEN MOISTURE_LOW ELSE NoTrigger)
    ELSE NoTrigger

\* _execute_automation_logic
Logic(t) ==
    /\ at(t, "logic")
    /\ th' = IF decision = NoTrigger
             THEN goto(t, "sched")
             ELSE [th EXCEPT ![t].pc = "ew180", ![t].trigger = decision,
                             ![t].emergency = (decision = EMERGENCY),
                             ![t].duration_multiplier =
                                 IF decision = EMERGENCY THEN EmergencyMultiplier
                                 ELSE NormalMultiplier,
                             ![t].caller = "logic"]
    /\ UNCHANGED <<envVars, lifeVars, coreVars, last_automated_watered_time, pump, obs>>

\* _check_scheduled_watering: whether a scheduled watering is due now
scheduled_due ==
    /\ <<weekday_of(now), hhmm_of(now)>> \in watering_schedule
    /\ \/ last_scheduled_watering = NoValue
       \/ date_of(last_scheduled_watering) # date_of(now)
       \/ hhmm_of(last_scheduled_watering) # hhmm_of(now)

\* _check_scheduled_watering, up to the call of _execute_watering
Sched(t) ==
    /\ at(t, "sched")
    /\ th' = IF scheduled_due
             THEN [th EXCEPT ![t].pc = "ew180", ![t].trigger = SCHEDULED,
                             ![t].emergency = FALSE, ![t].caller = "sched",
                             ![t].sched_now = now]
             ELSE goto(t, "persist")
    /\ UNCHANGED <<envVars, lifeVars, coreVars, last_automated_watered_time, pump, obs>>

\* _execute_watering: if self.automation_active and not emergency: return
ExecGuard(t) ==
    /\ at(t, "ew180")
    /\ th' = goto(t, IF automation_active /\ ~th[t].emergency THEN "ret" ELSE "ew184")
    /\ UNCHANGED <<envVars, lifeVars, coreVars, last_automated_watered_time, pump, obs>>

SetActiveBaseDurations(t) ==
    /\ at(t, "ew184")
    /\ automation_active' = TRUE
    /\ th' = [th EXCEPT ![t].pc = "ew190", ![t].began = TRUE,
                        ![t].initial_duration = BaseInitialDuration,
                        ![t].pulse_duration = BasePulseDuration]
    /\ UNCHANGED <<envVars, lifeVars, current_state, last_moisture_reading,
                   adaptive_threshold, consecutive_low_readings, watering_schedule,
                   last_scheduled_watering, last_sensor_warning,
                   last_automated_watered_time, pump, obs>>
\* _execute_watering: self.automation_active = True, then the watering
\* parameters initial_duration and pulse_duration
SetActive(t) ==
    /\ at(t, "ew184")
    /\ automation_active' = TRUE
    /\ th' = [th EXCEPT ![t].pc = "ew190", ![t].began = TRUE,
                        ![t].initial_duration =
                            (BaseInitialDuration * th[t].duration_multiplier) \div 10,
                        ![t].pulse_duration =
                            (BasePulseDuration * th[t].duration_multiplier) \div 10]
    /\ UNCHANGED <<envVars, lifeVars, current_state, last_moisture_reading,
                   adaptive_threshold, consecutive_low_readings, watering_schedule,
                   last_scheduled_watering, last_sensor_warning,
                   last_automated_watered_time, pump, obs>>

\* a HistoryStore call inside the try block: on failure control passes to
\* the except clause
logged(t, next) ==
    IF store_ok THEN goto(t, next)
    ELSE [th EXCEPT ![t].pc = "ew228", ![t].failed = TRUE]

\* _execute_watering: log_system_event("WATERING_START")
LogStart(t) ==
    /\ at(t, "ew190")
    /\ th' = logged(t, "ew197")
    /\ UNCHANGED <<envVars, lifeVars, coreVars, last_automated_watered_time, pump, obs>>

\* _execute_watering: self.pump.run_timed(initial_duration), the first pump
\* command of the sequence: pump.asserted follows, from here on, whether the
\* output was asserted for this caller
RunTimed(t) ==
    /\ at(t, "ew197")
    /\ LET p == [pump EXCEPT !.asserted = @ \ {t}]
       IN  IF pump.kind = "real"
           THEN IF run_timed_ok(th[t].initial_duration)
                THEN /\ FreeSlots(pump) # {}
                     /\ pump' = spawn(p, "timed", "t_on", t)
                ELSE pump' = p
           ELSE pump' = mock_on(p, t)
    /\ th' = goto(t, "ew198")
    /\ obs' = IF th[t].trigger = SCHEDULED
              THEN [obs EXCEPT !.scheduled = th[t].sched_now]
              ELSE obs
    /\ UNCHANGED <<envVars, lifeVars, coreVars, last_automated_watered_time>>

\* _execute_watering: time.sleep(initial_duration + 0.5), which outlasts the
\* timed worker's sleep of initial_duration
SleepInitial(t) ==
    /\ at(t, "ew198")
    /\ ~TimedAlive(pump, t)
    /\ th' = goto(t, "ew201")
    /\ UNCHANGED <<envVars, lifeVars, coreVars, last_automated_watered_time, pump, obs>>

\* _execute_watering: self.pump.start_pulsing(...), up to its thread start or,
\* when already pulsing, up to its sleep
StartPulsing(t) ==
    /\ at(t, "ew201")
    /\ IF pump.kind = "real"
       THEN IF pump.pulsing
            THEN /\ pump' = stop_pulsing(pump)
                 /\ th' = goto(t, "ew153")
            ELSE /\ FreeSlots(pump) # {}
                 /\ pump' = spawn(pump, "pulse", "p_start", t)
                 /\ th' = goto(t, "ew208")
       ELSE /\ pump' = mock_on(pump, t)
            /\ th' = goto(t, "ew208")
    /\ UNCHANGED <<envVars, lifeVars, coreVars, last_automated_watered_time, obs>>

\* start_pulsing after "Already pulsing": time.sleep(0.5), then the thread start
StartPulsingResume(t) ==
    /\ at(t, "ew153")
    /\ FreeSlots(pump) # {}
    /\ pump' = spawn(pump, "pulse", "p_start", t)
    /\ th' = goto(t, "ew208")
    /\ UNCHANGED <<envVars, lifeVars, coreVars, last_automated_watered_time, obs>>

\* str.upper() on the values of WateringTrigger
upper(v) ==
    CASE v = MOISTURE_LOW -> "MOISTURE_LOW"
      [] v = SCHEDULED -> "SCHEDULED"
      [] v = MANUAL -> "MANUAL"
      [] v = EMERGENCY -> "EMERGENCY"

\* a WateringEvent that leaves out the initial run
watering_event_pulse_only(t) ==
    [duration |-> th[t].pulse_duration,
     trigger_moisture |-> last_moisture_reading,
     event_type |-> upper(th[t].trigger),
     notes |-> consecutive_low_readings,
     tick |-> obs.ticks]
\* _execute_watering: the WateringEvent(...) it builds, with the tick of the
\* recorded run it was built in
watering_event(t) ==
    [duration |-> th[t].initial_duration + th[t].pulse_duration,
     trigger_moisture |-> last_moisture_reading,
     event_type |-> upper(th[t].trigger),
     notes |-> consecutive_low_readings,
     tick |-> obs.ticks]

\* _execute_watering: log_watering_event(...)
LogWateringEvent(t) ==
    /\ at(t, "ew208")
    /\ th' = logged(t, "ew216")
    /\ obs' = IF store_ok THEN recorded(obs, watering_event(t)) ELSE obs
    /\ UNCHANGED <<envVars, lifeVars, coreVars, last_automated_watered_time, pump>>

\* _execute_watering: self.cooldown_manager.mark_watered()
MarkWatered(t) ==
    /\ at(t, "ew216")
    /\ mark_watered
    /\ th' = goto(t, "ew219")
    /\ UNCHANGED <<envVars, lifeVars, coreVars, pump>>

\* _execute_watering: log_system_event("WATERING_COMPLETE")
LogComplete(t) ==
    /\ at(t, "ew219")
    /\ th' = logged(t, "ew225")
    /\ UNCHANGED <<envVars, lifeVars, coreVars, last_automated_watered_time, pump, obs>>

\* _execute_watering: time.sleep(post_water_wait)
PostWaterWait(t) ==
    /\ at(t, "ew225")
    /\ th' = goto(t, "ew234")
    /\ UNCHANGED <<envVars, lifeVars, coreVars, last_automated_watered_time, pump, obs>>

\* _execute_watering, except clause: log_system_event("WATERING_ERROR"); its
\* own exception leaves the function after the finally clause
LogWateringError(t) ==
    /\ at(t, "ew228")
    /\ th' = IF store_ok
             THEN [th EXCEPT ![t].pc = "ew234", ![t].err_logged = TRUE]
             ELSE [th EXCEPT ![t].pc = "ew234", ![t].exc = TRUE]
    /\ UNCHANGED <<envVars, lifeVars, coreVars, last_automated_watered_time, pump, obs>>

\* _execute_watering, finally clause: self.automation_active = False
FinallyActive(t) ==
    /\ at(t, "ew234")
    /\ automation_active' = FALSE
    /\ th' = goto(t, "ew235")
    /\ UNCHANGED <<envVars, lifeVars, current_state, last_moisture_reading,
                   adaptive_threshold, consecutive_low_readings, watering_schedule,
                   last_scheduled_watering, last_sensor_warning,
                   last_automated_watered_time, pump, obs>>

\* _execute_watering, finally clause: self.consecutive_low_readings = 0
FinallyLow(t) ==
    /\ at(t, "ew235")
    /\ consecutive_low_readings' = 0
    /\ th' = goto(t, "ret")
    /\ UNCHANGED <<envVars, lifeVars, current_state, last_moisture_reading,
                   automation_active, adaptive_threshold, watering_schedule,
                   last_scheduled_watering, last_sensor_warning,
                   last_automated_watered_time, pump, obs>>

\* the return of _execute_watering to its caller: an exception goes on to the
\* loop's handler; _check_scheduled_watering then sets _last_scheduled_watering
Return(t) ==
    /\ at(t, "ret")
    /\ th' = [th EXCEPT ![t] = [NoLocals EXCEPT
                 !.moisture = th[t].moisture,
                 !.pc = IF th[t].exc THEN "loop_except"
                        ELSE IF th[t].caller = "logic" THEN "sched" ELSE "persist"]]
    /\ last_scheduled_watering' =
           IF ~th[t].exc /\ th[t].caller = "sched" THEN th[t].sched_now
           ELSE last_scheduled_watering
    /\ UNCHANGED <<envVars, lifeVars, current_state, last_moisture_reading,
                   automation_active, adaptive_threshold, consecutive_low_readings,
                   watering_schedule, last_sensor_warning,
                   last_automated_watered_time, pump, obs>>

\* _automation_loop: log_moisture_reading(last_moisture_reading) if not None
Persist(t) ==
    /\ at(t, "persist")
    /\ th' = [th EXCEPT ![t].moisture = NoValue,
                        ![t].pc = IF last_moisture_reading # NoValue /\ ~store_ok
                                  THEN "loop_except" ELSE "loop"]
    /\ obs' = IF last_moisture_reading # NoValue
              THEN persisted(obs, last_moisture_reading) ELSE obs
    /\ UNCHANGED <<envVars, lifeVars, coreVars, last_automated_watered_time, pump>>

\* _automation_loop, except clause: log_system_event("AUTOMATION_ERROR"); its
\* own exception ends the thread
LoopExcept(t) ==
    /\ at(t, "loop_except")
    /\ th' = [th EXCEPT ![t].moisture = NoValue,
                        ![t].pc = IF store_ok THEN "loop" ELSE "crashed"]
    /\ UNCHANGED <<envVars, lifeVars, coreVars, last_automated_watered_time, pump, obs>>

\* ---------------------------------------------------- start and stop
FreeThreads == {t \in Threads : th[t].pc \in {"idle", "exited", "crashed"}}

\* start_automation()
StartAutomation ==
    /\ ui = "idle"
    /\ ~running
    /\ FreeThreads # {}
    /\ LET t == CHOOSE t \in FreeThreads : \A u \in FreeThreads : t <= u
       IN  /\ th' = [th EXCEPT ![t] = [NoLocals EXCEPT !.pc = "loop"]]
           /\ automation_thread' = t
    /\ running' = TRUE
    /\ stop_event' = FALSE
    /\ obs' = [obs EXCEPT !.stopped = FALSE]
    /\ UNCHANGED <<envVars, coreVars, last_automated_watered_time, ui, pump>>

\* stop_automation(), up to the join
StopAutomation ==
    /\ ui = "idle"
    /\ running' = FALSE
    /\ stop_event' = TRUE
    /\ ui' = IF automation_thread # 0 THEN "join" ELSE "idle"
    /\ obs' = [obs EXCEPT !.stopped = (automation_thread = 0)]
    /\ UNCHANGED <<envVars, coreVars, last_automated_watered_time, th,
                   automation_thread, pump>>

\* stop_automation(): automation_thread.join(timeout=5) returns, the thread
\* having ended or being in a sleep that outlasts the timeout
JoinReturn ==
    /\ ui = "join"
    /\ th[automation_thread].pc \in {"exited", "crashed"} \cup SleepPcs
    /\ ui' = "idle"
    /\ obs' = [obs EXCEPT !.stopped = TRUE]
    /\ UNCHANGED <<envVars, coreVars, last_automated_watered_time, th, running,
                   stop_event, automation_thread, pump>>

\* ------------------------------------------------------------ manual_water
\* manual_water(duration, pulse): the pump call, up to its thread start or,
\* when already pulsing, up to the sleep inside start_pulsing
ManualWater(pulse) ==
    /\ ui = "idle"
    /\ IF pump.kind = "real"
       THEN IF pulse /\ pump.pulsing
            THEN /\ pump' = stop_pulsing(pump)
                 /\ ui' = "mw153"
            ELSE /\ FreeSlots(pump) # {}
                 /\ pump' = IF pulse
                            THEN spawn(pump, "pulse", "p_start", UiThread)
                            ELSE spawn(pump, "timed", "t_on", UiThread)
                 /\ ui' = "mw340"
       ELSE /\ pump' = mock_on(pump, UiThread)
            /\ ui' = "mw340"
    /\ UNCHANGED <<envVars, coreVars, last_automated_watered_time, th, running,
                   stop_event, automation_thread, obs>>

\* manual_water: start_pulsing after "Already pulsing", the thread start
ManualResume ==
    /\ ui = "mw153"
    /\ FreeSlots(pump) # {}
    /\ pump' = spawn(pump, "pulse", "p_start", UiThread)
    /\ ui' = "mw340"
    /\ UNCHANGED <<envVars, coreVars, last_automated_watered_time, th, running,
                   stop_event, automation_thread, obs>>

\* manual_water: log_watering_event("MANUAL") and the return; when the store
\* fails the handler's log_system_event raises to the caller
ManualLog ==
    /\ ui = "mw340"
    /\ ui' = "idle"
    /\ UNCHANGED <<envVars, coreVars, last_automated_watered_time, th, running,
                   stop_event, automation_thread, pump, obs>>

\* ----------------------------------------------------------- environment
\* the wall clock advances
Advance ==
    /\ now < MaxTime
    /\ now' = now + 1
    /\ UNCHANGED <<ret, args, store_ok, lifeVars, coreVars,
                   last_automated_watered_time, th, pump, obs>>

\* the HistoryStore starts to fail (database locked, disk full)
StoreFail ==
    /\ store_ok
    /\ store_ok' = FALSE
    /\ UNCHANGED <<now, ret, args, lifeVars, coreVars,
                   last_automated_watered_time, th, pump, obs>>

\* the HistoryStore works again
StoreRecover ==
    /\ ~store_ok
    /\ store_ok' = TRUE
    /\ UNCHANGED <<now, ret, args, lifeVars, coreVars,
                   last_automated_watered_time, th, pump, obs>>

\* WateringCooldownManager.reset(), the operator's "Reset Cooldown"
ResetCooldown ==
    /\ last_automated_watered_time # 0
    /\ reset
    /\ UNCHANGED <<envVars, lifeVars, coreVars, th, pump>>

\* set_schedule(schedule)
SetSchedule(s) ==
    /\ watering_schedule # s
    /\ watering_schedule' = s
    /\ UNCHANGED <<envVars, lifeVars, current_state, last_moisture_reading,
                   automation_active, adaptive_threshold, consecutive_low_readings,
                   last_scheduled_watering, last_sensor_warning,
                   last_automated_watered_time, th, pump, obs>>

\* ---------------------------------------------------------- specifications
\* the state __init__ leaves; `input` is the value a fixed-value sensor
\* returns (<<>> when polls are free), `ticks` starts the tick count of a
\* recorded run (NoValue when the run is not recorded)
InitState(kind, seed, last, started, input, ticks) ==
    /\ now = StartTime
    /\ last_automated_watered_time = last
    /\ ret = NoValue
    /\ args = input
    /\ running = started
    /\ stop_event = FALSE
    /\ current_state = HEALTHY
    /\ last_moisture_reading = NoValue
    /\ automation_active = FALSE
    /\ adaptive_threshold = seed
    /\ consecutive_low_readings = 0
    /\ watering_schedule = {}
    /\ last_scheduled_watering = NoValue
    /\ last_sensor_warning = 0
    /\ th = [t \in Threads |-> IF started /\ t = 1
                               THEN [NoLocals EXCEPT !.pc = "loop"]
                               ELSE NoLocals]
    /\ automation_thread = IF started THEN 1 ELSE 0
    /\ ui = "idle"
    /\ store_ok = TRUE
    /\ pump = [kind |-> kind, value |-> FALSE, pulsing |-> FALSE,
               start_time |-> NoValue, session_runtime |-> 0, asserted |-> {},
               w |-> [i \in Workers |-> NoWorker]]
    /\ obs = [stopped |-> FALSE,
              marked |-> IF last = 0 THEN NoValue ELSE last,
              scheduled |-> NoValue,
              ticks |-> ticks,
              events |-> <<>>,
              polled |-> NoValue,
              absent_since |-> NoValue,
              warnings |-> <<>>,
              state_events |-> 0,
              state_calls |-> <<>>,
              moisture_calls |-> <<>>,
              written |-> NoValue,
              low_run |-> 0]
\* the state __init__ leaves for a pump of the given kind, a configured
\* moisture_threshold and a cooldown guard last marked at `last`; with
\* `started`, the state start_automation() makes of it at application start
InitWith(kind, seed, last, started) ==
    InitState(kind, seed, last, started, <<>>, NoValue)

\* one step of a control-loop thread
LoopStep(t) ==
    \/ LoopTest(t)
    \/ PollRaises(t)
    \/ PollAbsent(t)
    \/ \E m \in Readings : PollValue(t, m)
    \/ Logic(t)
    \/ Sched(t)
    \/ ExecGuard(t)
    \/ SetActive(t)
    \/ LogStart(t)
    \/ RunTimed(t)
    \/ SleepInitial(t)
    \/ StartPulsing(t)
    \/ LogWateringEvent(t)
    \/ MarkWatered(t)
    \/ LogComplete(t)
    \/ PostWaterWait(t)
    \/ LogWateringError(t)
    \/ FinallyActive(t)
    \/ FinallyLow(t)
    \/ Return(t)
    \/ Persist(t)
    \/ LoopExcept(t)

\* one step of a pump worker thread
WorkerStep(i) ==
    \/ TimedOn(i)
    \/ TimedOff(i)
    \/ PulserStart(i)
    \/ PulserTest(i)
    \/ PulserOn(i)
    \/ PulserOff(i)
    \/ PulserEnd(i)

\* The control loop of one engine with the simulated pump, under sensor and
\* HistoryStore failures, clock, schedule and cooldown reset.
Init == InitWith("mock", DefaultThreshold, 0, FALSE)
Next ==
    \/ \E t \in Threads : LoopStep(t)
    \/ StartAutomation
    \/ Advance
    \/ StoreFail
    \/ StoreRecover
    \/ ResetCooldown
    \/ \E s \in Schedules : SetSchedule(s)
Spec == Init /\ [][Next]_vars

\* one step of a control-loop thread whose sensor reads 10 percent on every
\* poll and whose HistoryStore works: the steps of LoopStep that remain
CriticalLoopStep(t) ==
    \/ LoopTest(t)
    \/ PollValue(t, 100)
    \/ Logic(t)
    \/ Sched(t)
    \/ ExecGuard(t)
    \/ SetActive(t)
    \/ LogStart(t)
    \/ RunTimed(t)
    \/ SleepInitial(t)
    \/ StartPulsing(t)
    \/ LogWateringEvent(t)
    \/ MarkWatered(t)
    \/ LogComplete(t)
    \/ PostWaterWait(t)
    \/ FinallyActive(t)
    \/ FinallyLow(t)
    \/ Return(t)
    \/ Persist(t)

\* The engine with the simulated pump, start_automation() and
\* stop_automation() called at any time, the sensor reading 10 percent.
InitRestart == InitWith("mock", DefaultThreshold, 0, FALSE)
NextRestart ==
    \/ \E t \in Threads : CriticalLoopStep(t)
    \/ StartAutomation
    \/ StopAutomation
    \/ JoinReturn
    \/ ResetCooldown
SpecRestart == InitRestart /\ [][NextRestart]_vars

\* The engine on the hardware pump, from the state start_automation() leaves
\* at application start, with stop_automation() called at any time and the
\* sensor reading 10 percent.
InitStop == InitWith("real", DefaultThreshold, 0, TRUE)
NextStop ==
    \/ \E t \in Threads : CriticalLoopStep(t)
    \/ \E t \in Threads : StartPulsingResume(t)
    \/ \E i \in Workers : WorkerStep(i)
    \/ StopAutomation
    \/ JoinReturn
    \/ ResetCooldown
SpecStop == InitStop /\ [][NextStop]_vars
\* The same for a single watering (no cooldown reset) under fair scheduling:
\* every thread that can take a step (the loop thread, each pump worker)
\* eventually takes one.
NextStopFair ==
    \/ \E t \in Threads : CriticalLoopStep(t)
    \/ \E i \in Workers : WorkerStep(i)
    \/ StopAutomation
    \/ JoinReturn
SpecStopFair ==
    /\ InitStop
    /\ [][NextStopFair]_vars
    /\ WF_vars(\E t \in Threads : CriticalLoopStep(t))
    /\ \A i \in Workers : WF_vars(WorkerStep(i))

\* The engine on the hardware pump, started, the sensor reading 10 percent,
\* with manual_water() called at any time.
InitManual == InitWith("real", DefaultThreshold, 0, TRUE)
NextManual ==
    \/ \E t \in Threads : CriticalLoopStep(t)
    \/ \E t \in Threads : StartPulsingResume(t)
    \/ \E i \in Workers : WorkerStep(i)
    \/ \E pulse \in BOOLEAN : ManualWater(pulse)
    \/ ManualResume
    \/ ManualLog
SpecManual == InitManual /\ [][NextManual]_vars

\* A recorded run of a fresh engine (empty schedule, cooldown expired,
\* HistoryStore working) with the simulated pump and a simulated sensor that
\* returns the same reading on every poll.
ScenarioLoopStep(t) ==
    \/ LoopTest(t)
    \/ PollValue(t, args[1])
    \/ Logic(t)
    \/ Sched(t)
    \/ ExecGuard(t)
    \/ SetActive(t)
    \/ LogStart(t)
    \/ RunTimed(t)
    \/ SleepInitial(t)
    \/ StartPulsing(t)
    \/ LogWateringEvent(t)
    \/ MarkWatered(t)
    \/ LogComplete(t)
    \/ PostWaterWait(t)
    \/ FinallyActive(t)
    \/ FinallyLow(t)
    \/ Return(t)
    \/ Persist(t)
InitScenario ==
    \E m \in Readings : InitState("mock", DefaultThreshold, 0, TRUE, <<m>>, 0)
NextScenario == \E t \in Threads : ScenarioLoopStep(t)
SpecScenario == InitScenario /\ [][NextScenario]_vars

\* A recorded run of a fresh engine with the simulated pump and a sensor
\* that may be absent on any poll, under HistoryStore failures and the clock.
InitSensor == InitState("mock", DefaultThreshold, 0, TRUE, <<>>, 0)
NextSensor ==
    \/ \E t \in Threads : LoopStep(t)
    \/ Advance
    \/ StoreFail
    \/ StoreRecover
SpecSensor == InitSensor /\ [][NextSensor]_vars

\* the control loop on the simulated pump over a bounded number of ticks
\* within one minute, with a schedule being set and a store that can start
\* to fail for good
InitEvents == InitState("mock", DefaultThreshold, 0, TRUE, <<>>, 0)
NextEvents ==
    \/ \E t \in Threads : LoopStep(t)
    \/ \E s \in Schedules : SetSchedule(s)
    \/ StoreFail
SpecEvents == InitEvents /\ [][NextEvents]_vars

\* A recorded run of a fresh engine whose sensor, once absent, stays absent,
\* the HistoryStore working. The loop waits refresh_interval_sec = 1 second
\* between iterations that start no watering, less than one unit of the
\* clock: once the sensor is absent the clock moves on only after a poll at
\* its current value.
ScenarioDLoopStep(t) ==
    \/ LoopTest(t)
    \/ PollAbsent(t)
    \/ (obs.absent_since = NoValue /\ \E m \in Readings : PollValue(t, m))
    \/ Logic(t)
    \/ Sched(t)
    \/ ExecGuard(t)
    \/ SetActive(t)
    \/ LogStart(t)
    \/ RunTimed(t)
    \/ SleepInitial(t)
    \/ StartPulsing(t)
    \/ LogWateringEvent(t)
    \/ MarkWatered(t)
    \/ LogComplete(t)
    \/ PostWaterWait(t)
    \/ FinallyActive(t)
    \/ FinallyLow(t)
    \/ Return(t)
    \/ Persist(t)
TickAdvance ==
    /\ obs.absent_since = NoValue \/ obs.polled = now
    /\ Advance
InitScenarioD == InitState("mock", DefaultThreshold, 0, TRUE, <<>>, 0)
NextScenarioD ==
    \/ \E t \in Threads : ScenarioDLoopStep(t)
    \/ TickAdvance
SpecScenarioD == InitScenarioD /\ [][NextScenarioD]_vars

\* A recorded run of a fresh engine with two state callbacks and two
\* moisture callbacks registered, any of which may raise when called, a
\* sensor that may be absent on any poll, and HistoryStore failures.
ObserverSets == SUBSET {StateObservers[k] : k \in 1..Len(StateObservers)}
MoistureObserverSets == SUBSET {MoistureObservers[k] : k \in 1..Len(MoistureObservers)}
ObserverLoopStep(t) ==
    \/ LoopTest(t)
    \/ \E rs \in ObserverSets : PollAbsentObs(t, rs)
    \/ \E m \in Readings, rs \in ObserverSets, rm \in MoistureObserverSets :
           PollValueObs(t, m, rs, rm)
    \/ Logic(t)
    \/ Sched(t)
    \/ ExecGuard(t)
    \/ SetActive(t)
    \/ LogStart(t)
    \/ RunTimed(t)
    \/ SleepInitial(t)
    \/ StartPulsing(t)
    \/ LogWateringEvent(t)
    \/ MarkWatered(t)
    \/ LogComplete(t)
    \/ PostWaterWait(t)
    \/ LogWateringError(t)
    \/ FinallyActive(t)
    \/ FinallyLow(t)
    \/ Return(t)
    \/ Persist(t)
    \/ LoopExcept(t)
InitObservers == InitState("mock", DefaultThreshold, 0, TRUE, <<>>, 0)
NextObservers ==
    \/ \E t \in Threads : ObserverLoopStep(t)
    \/ StoreFail
    \/ StoreRecover
SpecObservers == InitObservers /\ [][NextObservers]_vars

\* get_status() called from another thread while the control loop runs, the
\* sensor reading 10 percent. The call reads one field after the other;
\* args keeps the fields read so far, the values the engine's fields have
\* had at the instants since the call began, and the latest of them.
StatusFields ==
    <<running, current_state, last_moisture_reading, adaptive_threshold,
      consecutive_low_readings, automation_active, can_water>>
\* the values of the fields at the instants of one step of the loop thread
\* that takes them from P to Q: _check_and_update_state assigns
\* last_moisture_reading, adaptive_threshold, consecutive_low_readings and
\* current_state in this order, every other step assigns one field
instants(P, Q) ==
    LET order == <<3, 4, 5, 2>>
        after(j) == [k \in 1..Len(P) |->
                        IF \E i \in 1..j : order[i] = k THEN Q[k] ELSE P[k]]
    IN  {after(j) : j \in 0..Len(order)} \cup {Q}
\* the loop thread's step has been entered in the values kept
Kept == IF ui = "gs" THEN args[3] = StatusFields ELSE TRUE
Keep ==
    /\ ui = "gs"
    /\ args[3] # StatusFields
    /\ args' = <<args[1], args[2] \cup instants(args[3], StatusFields), StatusFields>>
    /\ UNCHANGED <<now, ret, store_ok, lifeVars, coreVars,
                   last_automated_watered_time, th, pump, obs>>
GetStatus ==
    /\ ui = "idle"
    /\ args = <<>>
    /\ ui' = "gs"
    /\ args' = << <<>>, {StatusFields}, StatusFields >>
    /\ UNCHANGED <<now, ret, store_ok, running, stop_event, automation_thread,
                   coreVars, last_automated_watered_time, th, pump, obs>>
\* the next entry of the dictionary is evaluated
GetStatusRead ==
    /\ ui = "gs"
    /\ Len(args[1]) < Len(StatusFields)
    /\ args' = <<Append(args[1], StatusFields[Len(args[1]) + 1]), args[2], args[3]>>
    /\ UNCHANGED <<now, ret, store_ok, lifeVars, coreVars,
                   last_automated_watered_time, th, pump, obs>>
GetStatusReturn ==
    /\ ui = "gs"
    /\ Len(args[1]) = Len(StatusFields)
    /\ Kept
    /\ ui' = "status"
    /\ UNCHANGED <<envVars, running, stop_event, automation_thread, coreVars,
                   last_automated_watered_time, th, pump, obs>>
\* the caller drops the snapshot
StatusDone ==
    /\ ui = "status"
    /\ ui' = "idle"
    /\ args' = <<>>
    /\ UNCHANGED <<now, ret, store_ok, running, stop_event, automation_thread,
                   coreVars, last_automated_watered_time, th, pump, obs>>
StatusLoopStep(t) == Kept /\ CriticalLoopStep(t)
InitStatus == InitWith("mock", DefaultThreshold, 0, TRUE)
NextStatus ==
    \/ \E t \in Threads : StatusLoopStep(t)
    \/ Keep
    \/ GetStatus
    \/ GetStatusRead
    \/ GetStatusReturn
    \/ StatusDone
SpecStatus == InitStatus /\ [][NextStatus]_vars

\* The hardware pump alone: start_pulsing() and stop_pulsing() called at any
\* time by one caller while the pulse workers run.
\* pump.start_pulsing(), up to its thread start or, when already pulsing, up
\* to its sleep
PumpStartPulsing ==
    /\ ui \in {"idle", "after_stop"}
    /\ IF pump.pulsing
       THEN /\ pump' = stop_pulsing(pump)
            /\ ui' = "sp153"
       ELSE /\ FreeSlots(pump) # {}
            /\ pump' = spawn(pump, "pulse", "p_start", UiThread)
            /\ ui' = "idle"
    /\ UNCHANGED <<envVars, coreVars, last_automated_watered_time, th, running,
                   stop_event, automation_thread, obs>>
\* start_pulsing after "Already pulsing": time.sleep(0.5), then the thread start
PumpStartPulsingResume ==
    /\ ui = "sp153"
    /\ FreeSlots(pump) # {}
    /\ pump' = spawn(pump, "pulse", "p_start", UiThread)
    /\ ui' = "idle"
    /\ UNCHANGED <<envVars, coreVars, last_automated_watered_time, th, running,
                   stop_event, automation_thread, obs>>
\* pump.stop_pulsing(), after which the caller has made no further call yet
PumpStopPulsing ==
    /\ ui = "idle"
    /\ pump' = stop_pulsing(pump)
    /\ ui' = "after_stop"
    /\ UNCHANGED <<envVars, coreVars, last_automated_watered_time, th, running,
                   stop_event, automation_thread, obs>>
\* one step of a pulse worker thread
PulseStep(i) ==
    \/ PulserStart(i)
    \/ PulserTest(i)
    \/ PulserOn(i)
    \/ PulserOff(i)
    \/ PulserEnd(i)
InitPump == InitWith("real", DefaultThreshold, 0, FALSE)
NextPump ==
    \/ PumpStartPulsing
    \/ PumpStartPulsingResume
    \/ PumpStopPulsing
    \/ \E i \in Workers : PulseStep(i)
SpecPump == InitPump /\ [][NextPump]_vars

\* A pump alone, hardware or simulated, with start_pulsing() called while no
\* pulse sequence is under way and never stopped, followed in time: a sleep
\* lasts exactly its duration and the statements between sleeps take no time.
\* args keeps <<on_time, off_time, total_duration>> of the call and the time
\* the output was last deasserted, ret the pulse count the worker ended with.
PulseTimings == {<<1, 1, 4>>, <<1, 1, 5>>, <<2, 1, 6>>, <<1, 2, 6>>, <<2, 2, 4>>, <<1, 1, 8>>}
\* start_pulsing(on_time, off_time, total_duration), the thread start
TimedStartPulsing(on_time, off_time, total_duration) ==
    /\ \A i \in Workers : pump.w[i].k = "none"
    /\ ~pump.pulsing
    /\ now + total_duration + on_time + off_time <= StartTime + PulseHorizon
    /\ pump' = spawn(pump, "pulse", "p_start", UiThread)
    /\ args' = <<on_time, off_time, total_duration, NoValue>>
    /\ ret' = NoValue
    /\ UNCHANGED <<now, store_ok, lifeVars, coreVars, last_automated_watered_time,
                   th, obs>>
\* pulser: self._pulsing = True; end_time = time.time() + total_duration
TimedPulserStart(i) ==
    /\ pump.w[i].k = "pulse" /\ pump.w[i].pc = "p_start"
    /\ pump' = [pump EXCEPT !.pulsing = TRUE, !.w[i].pc = "p_test",
                            !.w[i].end_time = now + args[3], !.w[i].wake = now]
    /\ UNCHANGED <<envVars, lifeVars, coreVars, last_automated_watered_time, th, obs>>
\* pulser: while self._pulsing and time.time() < end_time, once the sleep
\* before it has ended
TimedPulserTest(i) ==
    /\ pump.w[i].k = "pulse" /\ pump.w[i].pc = "p_test"
    /\ now >= pump.w[i].wake
    /\ pump' = [pump EXCEPT !.w[i].pc =
                   IF pump.pulsing /\ now < pump.w[i].end_time THEN "p_on" ELSE "p_end"]
    /\ UNCHANGED <<envVars, lifeVars, coreVars, last_automated_watered_time, th, obs>>
\* pulser: if self.turn_on(): time.sleep(pulse_on) ... else: break; the
\* simulated pump does not test turn_on()
TimedPulserOn(i) ==
    /\ pump.w[i].k = "pulse" /\ pump.w[i].pc = "p_on"
    /\ pump' = IF pump.kind = "mock" \/ turn_on_ok(pump)
               THEN [turn_on(pump, now, pump.w[i].owner) EXCEPT
                        !.w[i].pc = "p_off", !.w[i].n = pump.w[i].n + 1,
                        !.w[i].wake = now + args[1]]
               ELSE [pump EXCEPT !.w[i].pc = "p_end"]
    /\ UNCHANGED <<envVars, lifeVars, coreVars, last_automated_watered_time, th, obs>>
\* pulser, once sleep(pulse_on) has ended: self.turn_off(); pulse_count += 1;
\* time.sleep(pulse_off), which the hardware pump skips when not pulsing
TimedPulserOff(i) ==
    /\ pump.w[i].k = "pulse" /\ pump.w[i].pc = "p_off"
    /\ now >= pump.w[i].wake
    /\ pump' = [turn_off(pump) EXCEPT
                   !.w[i].pc = "p_test",
                   !.w[i].wake = IF pump.pulsing \/ pump.kind = "mock"
                                 THEN now + args[2] ELSE now]
    /\ args' = IF pump.value THEN [args EXCEPT ![4] = now] ELSE args
    /\ UNCHANGED <<now, ret, store_ok, lifeVars, coreVars,
                   last_automated_watered_time, th, obs>>
\* pulser: self._pulsing = False, and the thread ends
TimedPulserEnd(i) ==
    /\ pump.w[i].k = "pulse" /\ pump.w[i].pc = "p_end"
    /\ pump' = [pump EXCEPT !.pulsing = FALSE, !.w[i] = NoWorker]
    /\ ret' = pump.w[i].n
    /\ UNCHANGED <<now, args, store_ok, lifeVars, coreVars,
                   last_automated_watered_time, th, obs>>
\* the Timer of _start_safety_timer is due: max_continuous_runtime less the
\* session runtime has passed since turn_on()
safety_timer_due ==
    /\ pump.kind = "real" /\ pump.value /\ pump.start_time # NoValue
    /\ now - pump.start_time >= MaxContinuousRuntime - pump.session_runtime
\* _safety_shutdown: self.turn_off()
SafetyShutdown ==
    /\ safety_timer_due
    /\ pump' = turn_off(pump)
    /\ args' = [args EXCEPT ![4] = now]
    /\ UNCHANGED <<now, ret, store_ok, lifeVars, coreVars,
                   last_automated_watered_time, th, obs>>
\* time passes while the pulse worker sleeps and no timer is due
PulseTick ==
    /\ now < StartTime + PulseHorizon
    /\ \E i \in Workers : pump.w[i].k = "pulse"
    /\ \A i \in Workers :
          pump.w[i].k = "pulse" => /\ pump.w[i].pc \in {"p_off", "p_test"}
                                  /\ now < pump.w[i].wake
    /\ ~safety_timer_due
    /\ now' = now + 1
    /\ UNCHANGED <<ret, args, store_ok, lifeVars, coreVars,
                   last_automated_watered_time, th, pump, obs>>
TimedPulseStep(i) ==
    \/ TimedPulserStart(i)
    \/ TimedPulserTest(i)
    \/ TimedPulserOn(i)
    \/ TimedPulserOff(i)
    \/ TimedPulserEnd(i)
InitPulse == \E kind \in {"real", "mock"} : InitWith(kind, DefaultThreshold, 0, FALSE)
NextPulse ==
    \/ \E x \in PulseTimings : TimedStartPulsing(x[1], x[2], x[3])
    \/ \E i \in Workers : TimedPulseStep(i)
    \/ SafetyShutdown
    \/ PulseTick
SpecPulse == InitPulse /\ [][NextPulse]_vars

\* The engine on the hardware pump, started, the sensor reading 10 percent,
\* with the clock advancing while the pump runs and the cooldown being reset.
InitRefuse == InitWith("real", DefaultThreshold, 0, TRUE)
NextRefuse ==
    \/ \E t \in Threads : CriticalLoopStep(t)
    \/ \E t \in Threads : StartPulsingResume(t)
    \/ \E i \in Workers : WorkerStep(i)
    \/ Advance
    \/ ResetCooldown
SpecRefuse == InitRefuse /\ [][NextRefuse]_vars

\* The cooldown guard alone: mark_watered(), reset() and the two queries
\* called at any time while the clock advances.
GuardMark ==
    /\ mark_watered
    /\ UNCHANGED <<envVars, lifeVars, coreVars, th, pump>>
\* can_water(): the bool it returns, as the int it is (True == 1, False == 0)
GuardCanWater ==
    /\ args = <<>>
    /\ ret' = IF can_water THEN 1 ELSE 0
    /\ args' = <<"can_water", now>>
    /\ UNCHANGED <<now, store_ok, lifeVars, coreVars,
                   last_automated_watered_time, th, pump, obs>>
GuardSecondsSinceLast ==
    /\ args = <<>>
    /\ ret' = seconds_since_last
    /\ args' = <<"seconds_since_last", now>>
    /\ UNCHANGED <<now, store_ok, lifeVars, coreVars,
                   last_automated_watered_time, th, pump, obs>>
\* the caller takes the answer; the guard is ready for the next query
GuardReturn ==
    /\ args # <<>>
    /\ args' = <<>>
    /\ UNCHANGED <<now, ret, store_ok, lifeVars, coreVars,
                   last_automated_watered_time, th, pump, obs>>
NextGuard ==
    \/ GuardMark
    \/ ResetCooldown
    \/ GuardCanWater
    \/ GuardSecondsSinceLast
    \/ GuardReturn
    \/ Advance
SpecGuard == Init /\ [][NextGuard]_vars

\* The classifier as a function: a threshold and a cooldown status drawn at
\* the start, then _calculate_plant_state called on any valid reading.
ClassifierThresholds == {ThresholdMin, 155, DefaultThreshold, 301, ThresholdMax}
InitClassifier ==
    \E t \in ClassifierThresholds, last \in {0, StartTime} :
        InitWith("mock", t, last, FALSE)
\* _calculate_plant_state(m)
Classify(m) ==
    /\ args = <<>>
    /\ ret' = classify(m, adaptive_threshold, can_water)
    /\ args' = <<m>>
    /\ consecutive_low_readings' =
           low_after(m, adaptive_threshold, consecutive_low_readings)
    /\ consecutive_low_readings' <= MaxLow
    /\ UNCHANGED <<now, store_ok, lifeVars, current_state, last_moisture_reading,
                   automation_active, adaptive_threshold, watering_schedule,
                   last_scheduled_watering, last_sensor_warning,
                   last_automated_watered_time, th, pump, obs>>
NextClassifier == \E m \in 0..MaxMoisture : Classify(m)
SpecClassifier == InitClassifier /\ [][NextClassifier]_vars

\* The estimator as a function: a configured seed, then recomputes on any
\* history: h readings in 24 h, of which n are stable and sum to S. The
\* stable means are the multiples of 3.5 percent and 35.5 percent, whose
\* candidate lies just over 2 points above the default threshold.
Seeds == {100, ThresholdMin, DefaultThreshold, ThresholdMax, 510, 800}
HistoryLengths == {9, 10}
StableCounts == {4, 5, 6}
StableMeans == {a \in 0..MaxMoisture : a % 35 = 0 \/ a = 355}
StableSums(n) == {n * a + d : a \in StableMeans, d \in {0, 3}}
InitThreshold == \E seed \in Seeds : InitWith("mock", seed, 0, FALSE)
\* _update_adaptive_threshold() on a history of h readings of which n are
\* stable and sum to S: ret keeps the threshold before the call, args the
\* history and whether THRESHOLD_UPDATE was logged
Recompute(h, S, n) ==
    /\ adaptive_threshold' \in updated_threshold(adaptive_threshold, h, S, n)
    /\ ret' = adaptive_threshold
    /\ args' = <<h, S, n,
                 IF threshold_update_event(adaptive_threshold, h, S, n) THEN 1 ELSE 0>>
    /\ UNCHANGED <<now, store_ok, lifeVars, current_state,
                   last_moisture_reading, automation_active,
                   consecutive_low_readings, watering_schedule,
                   last_scheduled_watering, last_sensor_warning,
                   last_automated_watered_time, th, pump, obs>>
NextThreshold ==
    \E h \in HistoryLengths, n \in StableCounts :
        \E S \in StableSums(n) : Recompute(h, S, n)
SpecThreshold == InitThreshold /\ [][NextThreshold]_vars

\* the estimator over HistoryStore contents: moisture rows one or two hours
\* apart, some of them older than 24 hours, with values rising by one point
\* per row, and watering rows of which one is older than 7 days
MoistureStores ==
    {[k \in 1..cnt |-> [age |-> a0 + (k - 1) * gap, moisture_percent |-> v + 10 * k]] :
        a0 \in {0, 15}, cnt \in {9, 12}, gap \in {1, 2}, v \in {100, 355, 700}}
WateringStores == {{}, {3}, {9}, {3, 20}, {170}, {3, 170}}
\* _update_adaptive_threshold() on the store contents rows and waterings: ret
\* keeps the threshold before the call, args the contents and whether
\* THRESHOLD_UPDATE was logged
RecomputeFrom(rows, waterings) ==
    LET history == get_moisture_history(rows, HistoryHours)
        watered_times == get_watering_history(waterings, WateringDays)
        stable == stable_readings(history, watered_times)
    IN  /\ adaptive_threshold' \in
               updated_threshold(adaptive_threshold, Len(history), sum(stable), Len(stable))
        /\ ret' = adaptive_threshold
        /\ args' = <<rows, waterings,
                     IF threshold_update_event(adaptive_threshold, Len(history),
                                               sum(stable), Len(stable))
                     THEN 1 ELSE 0>>
        /\ UNCHANGED <<now, store_ok, lifeVars, current_state,
                       last_moisture_reading, automation_active,
                       consecutive_low_readings, watering_schedule,
                       last_scheduled_watering, last_sensor_warning,
                       last_automated_watered_time, th, pump, obs>>
InitStable == InitThreshold
NextStable ==
    \E rows \in MoistureStores, waterings \in WateringStores :
        RecomputeFrom(rows, waterings)
SpecStable == InitStable /\ [][NextStable]_vars

\* ------------------------------------------------------------------ claims

\* C1: at most one invocation of the decision/execution logic is inside the
\* actuation sequence at any instant; a second, concurrent invocation returns
\* without actuating.
C1_SingleInFlight == Cardinality({t \in Threads : InSequence(t)}) <= 1

\* C2: a MOISTURE_LOW watering is decided only in a state with
\* consecutive_low_readings >= 3, current_state NeedsWater and can_water()
\* true (and no actuation in flight).
C2_MoistureLowDebounced ==
    [][\A t \in Threads :
          (th[t].trigger # MOISTURE_LOW /\ th'[t].trigger = MOISTURE_LOW)
          => /\ consecutive_low_readings >= DebounceCount
             /\ current_state = NEEDS_WATER
             /\ can_water
             /\ ~automation_active]_vars
\* a MOISTURE_LOW sequence has been decided and has set automation_active
C2_Witness ==
    \E t \in Threads : th[t].trigger = MOISTURE_LOW /\ th[t].pc = "ew190"

\* C3: every automated actuation sequence starts more than cooldown_duration
\* after the last mark_watered() that no reset() followed, that is, with
\* can_water() true at its start.
C3_CooldownBetweenActuations ==
    [][\A t \in Threads :
          (th[t].pc = "ew184" /\ th'[t].pc = "ew190") => can_water]_vars

\* C4: can_water() is true iff more than cooldown_duration has passed since
\* the last mark_watered(): false up to and including cooldown_duration after
\* it, true afterwards, true before any mark_watered() and right after
\* reset(); the two queries change nothing of the guard.
C4_CooldownGuard ==
    [][/\ (args = <<>> /\ args' # <<>>) =>
              UNCHANGED <<now, last_automated_watered_time, obs>>
       /\ (args = <<>> /\ args' = <<"can_water", now>>) =>
              /\ obs.marked = NoValue => ret' = 1
              /\ (obs.marked # NoValue /\ now - obs.marked > CooldownSec) =>
                     ret' = 1
              /\ (obs.marked # NoValue /\ now - obs.marked <= CooldownSec) =>
                     ret' = 0]_vars
\* exactly cooldown_duration after a mark_watered(), can_water() answered false
C4_Witness ==
    /\ obs.marked # NoValue
    /\ args = <<"can_water", obs.marked + CooldownSec>>
    /\ ret = 0

\* C5: the classifier returns Critical for m < t * 0.5, NeedsWater for
\* t * 0.5 <= m < t, and otherwise RecentlyWatered when can_water() is false
\* and Healthy when it is true.
C5_Classifier ==
    args # <<>> =>
        LET m == args[1]
            t == adaptive_threshold
        IN  /\ 2 * m < t => ret = CRITICAL
            /\ (t <= 2 * m /\ m < t) => ret = NEEDS_WATER
            /\ (m >= t /\ ~can_water) => ret = RECENTLY_WATERED
            /\ (m >= t /\ can_water) => ret = HEALTHY
\* a reading of exactly half the threshold was classified NeedsWater
C5_Witness ==
    /\ args # <<>>
    /\ 2 * args[1] = adaptive_threshold
    /\ ret = NEEDS_WATER

\* C6: adaptive_threshold lies within [15, 50] from construction onward, for
\* every configured moisture_threshold.
C6_ThresholdInRange ==
    ThresholdMin <= adaptive_threshold /\ adaptive_threshold <= ThresholdMax

\* C7: a control-loop thread ends only after stop_automation() was called; no
\* exception of an iteration ends it.
C7_LoopSurvivesErrors ==
    \A t \in Threads : th[t].pc \in {"exited", "crashed"} => stop_event

\* C8: when a sequence that set automation_active returns, automation_active
\* is false, consecutive_low_readings is 0, a failure was logged as
\* WATERING_ERROR and no exception goes on to the control loop.
C8_SequenceCleanup ==
    \A t \in Threads :
        (th[t].pc = "ret" /\ th[t].began)
        => /\ ~automation_active
           /\ consecutive_low_readings = 0
           /\ th[t].failed => th[t].err_logged
           /\ ~th[t].exc

\* C9: once stop_automation() has returned the pump output is deasserted.
C9_PumpOffAfterStop == obs.stopped => ~pump.value

\* C10: once stop_automation() has signalled cancellation, a sequence in
\* progress starts none of the steps pulse start, WateringEvent logging and
\* mark_watered.
C10_StopObservedAtStepBoundary ==
    [][\A t \in Threads :
          (stop_event /\ th[t].pc \in {"ew201", "ew153", "ew208", "ew216"})
          => th'[t].pc = th[t].pc]_vars

\* C11: at most one control-loop thread is alive (started and not yet ended)
\* at any instant, whatever start_automation() and stop_automation() calls
\* were made.
C11_SingleLoopThread ==
    Cardinality({t \in Threads : th[t].pc \notin {"idle", "exited", "crashed"}}) <= 1

\* C12: once stop_automation() has signalled the stop (and no start follows),
\* running is false, the loop thread begins no new tick from the top of the
\* loop, and it eventually exits (from every state in which the model's cap
\* on consecutive_low_readings does not withhold the thread's next poll).
C12_StopEndsLoop ==
    /\ [](stop_event => ~running)
    /\ [][\A t \in Threads :
            (stop_event /\ th[t].pc = "loop") => th'[t].pc # "check"]_vars
    /\ \A t \in Threads :
            (stop_event /\ th[t].pc # "idle" /\ consecutive_low_readings < MaxLow)
                ~> (th[t].pc = "exited")
\* stop_automation() returned after a watering and the loop thread has exited
C12_Witness ==
    /\ obs.stopped
    /\ ~running
    /\ obs.marked # NoValue
    /\ th[1].pc = "exited"

\* C14: at most one pulse worker is inside its on/off loop at any instant,
\* whatever the interleaving of start_pulsing() calls.
C14_SinglePulseWorker ==
    Cardinality({i \in Workers : /\ pump.w[i].k = "pulse"
                                 /\ pump.w[i].pc \in {"p_test", "p_on", "p_off"}}) <= 1

\* C15: once stop_pulsing() has returned (and the caller has made no further
\* call), the pump output is deasserted and the pump reports not pulsing.
C15_StopPulsingFinal ==
    ui = "after_stop" => (~pump.value /\ ~pump.pulsing)

\* C13: a manual_water() call made while an automated actuation sequence is
\* in progress, or while that sequence's pump workers are still alive, starts,
\* stops or restarts nothing on the pump.
C13_ManualExcluded ==
    [][(/\ ui = "idle"
        /\ ui' \in {"mw153", "mw340"}
        /\ \/ automation_active
           \/ \E j \in Workers : pump.w[j].k # "none" /\ pump.w[j].owner \in Threads)
       => pump' = pump]_vars

\* C17: when manual_water() returns without error, can_water() is false.
C17_ManualMarksWatered ==
    [][(ui = "mw340" /\ ui' = "idle" /\ store_ok) => ~can_water']_vars

\* C16: mark_watered() is called in an automated sequence only after the
\* actuation has completed: the sequence's timed run and pulse workers have
\* finished and the pump is deasserted and not pulsing.
C16_MarkAfterActuation ==
    [][\A t \in Threads :
          (th[t].pc = "ew216" /\ th'[t].pc = "ew219") =>
              /\ ~pump.value
              /\ ~pump.pulsing
              /\ \A i \in Workers : pump.w[i].owner # t]_vars

\* C18 as stated: in scenario A (every tick reads 10 percent, threshold 30,
\* cooldown expired) no WateringEvent is recorded before the third tick, and
\* the one recorded is an EMERGENCY event of 1.5 times the base durations.
C18_ScenarioA_ThirdTick ==
    (args = <<100>> /\ adaptive_threshold = DefaultThreshold) =>
        \A k \in 1..Len(obs.events) :
            /\ obs.events[k].tick >= 3
            /\ obs.events[k].event_type = upper(EMERGENCY)
            /\ 10 * obs.events[k].duration =
                   EmergencyMultiplier * (BaseInitialDuration + BasePulseDuration)
\* C18, amended: in scenario A the EMERGENCY watering is triggered on the
\* first tick: the only WateringEvent recorded is an EMERGENCY event of the
\* first tick, of 1.5 times the base durations, and it is there once the
\* first tick has ended.
C18_ScenarioA_FirstTick ==
    (args = <<100>> /\ adaptive_threshold = DefaultThreshold) =>
        /\ Len(obs.events) <= 1
        /\ \A k \in 1..Len(obs.events) :
               /\ obs.events[k].tick = 1
               /\ obs.events[k].event_type = upper(EMERGENCY)
               /\ 10 * obs.events[k].duration =
                      EmergencyMultiplier * (BaseInitialDuration + BasePulseDuration)
        /\ obs.ticks >= 2 => Len(obs.events) = 1
\* three ticks have read 10 percent and the EMERGENCY event is recorded
C18_Witness ==
    /\ args = <<100>>
    /\ adaptive_threshold = DefaultThreshold
    /\ obs.ticks = 3
    /\ Len(obs.events) = 1
    /\ obs.events[1].event_type = upper(EMERGENCY)

\* C19: a decision step taken with automation_active false, state Critical
\* and can_water() true calls the EMERGENCY watering, whatever the value of
\* consecutive_low_readings; the sequence it starts is not turned away by its
\* entry test and computes initial and pulse durations of 1.5 times the
\* configured ones.
C19_EmergencyDecision ==
    [][\A t \in Threads :
          /\ (/\ th[t].pc = "logic" /\ th'[t].pc # "logic"
              /\ ~automation_active /\ current_state = CRITICAL /\ can_water)
             => (/\ th'[t].pc = "ew180"
                 /\ th'[t].trigger = EMERGENCY
                 /\ th'[t].emergency)
          /\ (th[t].pc = "ew180" /\ th'[t].pc # "ew180" /\ th[t].trigger = EMERGENCY)
             => th'[t].pc = "ew184"
          /\ (th[t].pc = "ew184" /\ th'[t].pc # "ew184" /\ th[t].trigger = EMERGENCY)
             => (/\ 10 * th'[t].initial_duration =
                        EmergencyMultiplier * BaseInitialDuration
                 /\ 10 * th'[t].pulse_duration =
                        EmergencyMultiplier * BasePulseDuration)]_vars
\* an EMERGENCY sequence runs its timed run after a single low reading
C19_Witness ==
    \E t \in Threads :
        /\ th[t].pc = "ew198"
        /\ th[t].trigger = EMERGENCY
        /\ consecutive_low_readings = 1
        /\ 10 * th[t].initial_duration = EmergencyMultiplier * BaseInitialDuration

\* C20: in scenario B (every tick reads 25 percent, threshold 30, cooldown
\* expired) no WateringEvent is recorded on the first and second tick, and a
\* MOISTURE_LOW WateringEvent of the base durations is recorded on the third.
C20_ScenarioB ==
    (args = <<250>> /\ adaptive_threshold = DefaultThreshold) =>
        /\ Len(obs.events) <= 1
        /\ \A k \in 1..Len(obs.events) :
               /\ obs.events[k].tick = 3
               /\ obs.events[k].event_type = upper(MOISTURE_LOW)
               /\ obs.events[k].notes = DebounceCount
               /\ 10 * obs.events[k].duration =
                      NormalMultiplier * (BaseInitialDuration + BasePulseDuration)
        /\ obs.ticks >= 4 => Len(obs.events) = 1
\* the third tick of scenario B has recorded its MOISTURE_LOW event
C20_Witness ==
    /\ args = <<250>>
    /\ adaptive_threshold = DefaultThreshold
    /\ obs.ticks = 3
    /\ Len(obs.events) = 1
    /\ obs.events[1].event_type = upper(MOISTURE_LOW)


\* C21: in a tick whose valid reading is at or above the adaptive threshold
\* the poll leaves the state RECENTLY_WATERED while the cooldown runs and
\* HEALTHY otherwise, and the moisture decision step of that tick goes on to
\* the scheduled check: it does not enter the watering sequence, drives no
\* pump and records no WateringEvent.
C21_NoActuationAtOrAboveThreshold ==
    [][\A t \in Threads :
          /\ (at(t, "check") /\ th'[t].moisture \in Readings
                  /\ th'[t].moisture >= adaptive_threshold')
              => current_state' =
                     IF can_water THEN HEALTHY ELSE RECENTLY_WATERED
          /\ (at(t, "logic") /\ th'[t].pc # "logic" /\ th[t].moisture \in Readings
                  /\ th[t].moisture >= adaptive_threshold)
              => /\ th'[t].pc = "sched"
                 /\ pump' = pump
                 /\ obs' = obs
                 /\ automation_active' = automation_active]_vars
\* scenario C: 50 percent read against a threshold of 30 while the cooldown
\* of an earlier watering runs, after the decision step
C21_Witness ==
    \E t \in Threads :
        /\ at(t, "sched")
        /\ th[t].moisture = 500
        /\ adaptive_threshold = DefaultThreshold
        /\ ~can_water
        /\ current_state = RECENTLY_WATERED
        /\ ~automation_active
C24_SensorErrorAndRecovery ==
    [][\A t \in Threads :
          /\ (at(t, "check") /\ th'[t].moisture = Absent)
              => /\ current_state' = SENSOR_ERROR
                 /\ obs'.state_events = IF current_state # SENSOR_ERROR THEN 1 ELSE 0
                 /\ Len(obs'.state_calls) =
                        IF current_state # SENSOR_ERROR THEN Len(StateObservers) ELSE 0
          /\ th'[t].pc # "crashed"
          /\ (at(t, "check") /\ th'[t].moisture \in Readings)
              => current_state' =
                     classify(th'[t].moisture, adaptive_threshold', can_water)]_vars
\* C25: a SCHEDULED watering starts the pump at most once for the minute of
\* its schedule check, however many iterations check the schedule in that
\* minute, and the schedule check calls for a watering only in a minute
\* that watering_schedule holds for the current weekday.
C25_ScheduledOncePerMinute ==
    [][\A t \in Threads :
          /\ (at(t, "ew197") /\ th'[t].pc = "ew198" /\ th[t].trigger = SCHEDULED)
              => obs.scheduled # th[t].sched_now
          /\ (at(t, "sched") /\ th'[t].pc = "ew180")
              => <<weekday_of(now), hhmm_of(now)>> \in watering_schedule]_vars
\* C26: consecutive_low_readings is never negative; a poll whose reading is
\* below the adaptive threshold adds exactly 1 to it; it is 0 from a poll
\* whose reading is at or above the threshold to the end of that iteration,
\* and 0 when a watering sequence that set automation_active returns.
C26_ConsecutiveLowReadings ==
    [][\A t \in Threads :
          /\ consecutive_low_readings' >= 0
          /\ (at(t, "check") /\ th'[t].moisture \in Readings
                  /\ th'[t].moisture < adaptive_threshold')
              => consecutive_low_readings' = consecutive_low_readings + 1
          /\ (th'[t].moisture \in Readings
                  /\ th'[t].moisture >= adaptive_threshold')
              => consecutive_low_readings' = 0
          /\ (th'[t].pc = "ret" /\ th'[t].began)
              => consecutive_low_readings' = 0]_vars
\* a watering sequence returns in an iteration whose reading was the third
\* below the threshold
C26_Witness ==
    \E t \in Threads :
        /\ at(t, "ret") /\ th[t].began
        /\ th[t].trigger = MOISTURE_LOW
        /\ th[t].moisture \in Readings
        /\ th[t].moisture < adaptive_threshold
        /\ consecutive_low_readings = 0
\* C27: a recompute leaves the adaptive threshold unchanged or changes it by
\* at least the hysteresis margin of 2 points; it replaces it only when the
\* candidate (0.9 times the stable mean, clamped) is more than 2 points from
\* it, by the candidate rounded to a tenth; THRESHOLD_UPDATE is logged
\* exactly when it is replaced.
C27_Hysteresis ==
    [][LET old == adaptive_threshold
           new == adaptive_threshold'
           S == args'[2]
           n == args'[3]
           clamped == IF 9 * S < ThresholdMin * 10 * n THEN ThresholdMin * 10 * n
                      ELSE IF 9 * S > ThresholdMax * 10 * n THEN ThresholdMax * 10 * n
                      ELSE 9 * S
       IN  /\ new = old \/ new - old >= Hysteresis \/ old - new >= Hysteresis
           /\ new # old =>
                  /\ \/ clamped - old * 10 * n > Hysteresis * 10 * n
                     \/ old * 10 * n - clamped > Hysteresis * 10 * n
                  /\ 2 * (new * 10 * n - clamped) <= 10 * n
                  /\ 2 * (clamped - new * 10 * n) <= 10 * n
           /\ (args'[4] = 1) <=> (new # old)]_vars
\* a recompute that moved the threshold by exactly the margin (a candidate
\* just over 2 points away, rounded) and logged it
C27_Witness ==
    /\ args # <<>>
    /\ args[4] = 1
    /\ adaptive_threshold - ret = Hysteresis \/ ret - adaptive_threshold = Hysteresis
\* C28: in an iteration whose poll leaves a state different from the stored
\* one, one STATE_CHANGE event is emitted and each registered state callback
\* is called exactly once, with the stored state as old_state and the new
\* current_state as new_state; in an iteration whose poll leaves the state
\* as it was there is no event and no call; no other step changes the state.
C28_StateChangeNotified ==
    [][\A t \in Threads :
          IF at(t, "check") /\ th'[t].pc # "check"
          THEN IF current_state' # current_state
               THEN /\ obs'.state_events = 1
                    /\ Len(obs'.state_calls) = Len(StateObservers)
                    /\ \A k \in 1..Len(obs'.state_calls) :
                           /\ obs'.state_calls[k].observer = StateObservers[k]
                           /\ obs'.state_calls[k].old = current_state
                           /\ obs'.state_calls[k].new = current_state'
                           /\ obs'.state_calls[k].current = current_state'
                           /\ obs'.state_calls[k].old # obs'.state_calls[k].new
               ELSE obs'.state_events = 0 /\ obs'.state_calls = <<>>
          ELSE at(t, "loop") \/ th'[t].pc = th[t].pc
                  \/ (current_state' = current_state
                        /\ obs'.state_calls = obs.state_calls)]_vars

\* C29: when a state callback or a moisture callback raises, every callback
\* registered for that notification is still called, once each, and the
\* iteration goes on to the watering decision: the exception does not reach
\* the handlers of _check_and_update_state or of the loop.
C29_ObserverFailureIsolated ==
    [][\A t \in Threads :
          (at(t, "check") /\ th'[t].pc # "check")
          => /\ (\E k \in 1..Len(obs'.state_calls) : obs'.state_calls[k].raised)
                => /\ Len(obs'.state_calls) = Len(StateObservers)
                   /\ \A k \in 1..Len(StateObservers) :
                          obs'.state_calls[k].observer = StateObservers[k]
                   /\ th'[t].pc = "logic"
             /\ (\E k \in 1..Len(obs'.moisture_calls) : obs'.moisture_calls[k].raised)
                => /\ Len(obs'.moisture_calls) = Len(MoistureObservers)
                   /\ \A k \in 1..Len(MoistureObservers) :
                          obs'.moisture_calls[k].observer = MoistureObservers[k]
                   /\ th'[t].pc = "logic"]_vars
\* the first state callback and the first moisture callback raised, the
\* second of each was called, and the iteration has reached the persistence
\* step
C29_Witness ==
    \E t \in Threads :
        /\ at(t, "persist")
        /\ Len(obs.state_calls) = 2
        /\ obs.state_calls[1].raised /\ ~obs.state_calls[2].raised
        /\ Len(obs.moisture_calls) = 2
        /\ obs.moisture_calls[1].raised /\ ~obs.moisture_calls[2].raised
\* C30: the snapshot a get_status() call returns while the control loop
\* runs equals the values the engine's fields (running, current_state,
\* last_moisture, adaptive_threshold, consecutive_low_readings,
\* automation_active, can_water) had together at one instant of the call.
C30_ConsistentSnapshot ==
    ui = "status" => args[1] \in args[2]

C32_PersistsThisTicksReading ==
    [][\A t \in Threads :
          at(t, "persist") /\ th'[t].pc # "persist"
            => /\ obs'.written # NoValue <=> th[t].moisture \in Readings
               /\ obs'.written # NoValue => obs'.written = th[t].moisture]_vars

C34_PulseSequence ==
    [][\A i \in Workers :
          pump.w[i].k = "pulse" =>
            LET w == pump.w[i]
                on_time == args[1]
                off_time == args[2]
                total_duration == args[3]
                cycles == total_duration \div (on_time + off_time)
            IN  /\ (~pump.value /\ pump'.value)
                      => /\ now - (w.end_time - total_duration) < total_duration
                         /\ IF w.n = 0 THEN now = w.end_time - total_duration
                            ELSE now - args[4] = off_time
                /\ (pump.value /\ ~pump'.value) => now - pump.start_time = on_time
                /\ pump'.w[i].k = "none"
                      => /\ ~pump'.value /\ ~pump'.pulsing
                         /\ w.n >= 1
                         /\ w.n >= cycles - 1 /\ w.n <= cycles + 1]_vars

\* C35: automation_active is true whenever a timed-run or pulse worker
\* started by an automated sequence is still active, and false whenever the
\* control loop is between two ticks and no such worker is active.
C35_ActiveWhilePumpDriven ==
    LET driven == \E i \in Workers : pump.w[i].k # "none" /\ pump.w[i].owner \in Threads
    IN  /\ driven => automation_active
        /\ (~driven /\ \A t \in Threads : th[t].pc \in {"idle", "loop", "exited"})
              => ~automation_active

\* C36: a MOISTURE_LOW watering is decided only at a tick where that tick and
\* the two ticks before it each polled a reading below the threshold; an
\* absent poll in between breaks the run.
C36_ThreeLowTicksInARow ==
    [][\A t \in Threads :
          (th[t].trigger # MOISTURE_LOW /\ th'[t].trigger = MOISTURE_LOW)
            => obs.low_run >= DebounceCount]_vars

\* C37: an EMERGENCY or MOISTURE_LOW watering is decided only in a tick whose
\* poll returned a reading, and on the state that reading classifies to:
\* below half the threshold for EMERGENCY, below the threshold and not below
\* its half for MOISTURE_LOW; after an absent or a raising poll none is.
C37_DecidedOnThisTicksReading ==
    [][\A t \in Threads :
          (th[t].trigger = NoTrigger /\ th'[t].trigger \in {EMERGENCY, MOISTURE_LOW})
            => /\ th[t].moisture \in Readings
               /\ th'[t].trigger = EMERGENCY
                     => 2 * th[t].moisture < adaptive_threshold
               /\ th'[t].trigger = MOISTURE_LOW
                     => /\ th[t].moisture < adaptive_threshold
                        /\ 2 * th[t].moisture >= adaptive_threshold]_vars

\* C38: an automated sequence records its WateringEvent and marks the
\* cooldown only if the pump output was asserted for it since its first pump
\* command; when every turn_on() of the sequence was refused it does neither.
C38_RecordedOnlyIfAsserted ==
    [][\A t \in Threads :
          (\/ at(t, "ew208") /\ th'[t].pc = "ew216"
           \/ at(t, "ew216") /\ th'[t].pc = "ew219")
            => t \in pump.asserted]_vars


====
